---- MODULE Spec2Model ----
(* McAulay-Quatieri sinusoidal modelling (js/app/mqAudio.js):              *)
(* detectPeaks, findCandidateIndex, trackPartials and synthesize.          *)
(* Indices are 0-based as in the JavaScript; At(s, i) reads element i.     *)
EXTENDS Integers, Sequences, FiniteSets, TLC

VARIABLES
    pc,           \* position of the running call
    spectrogram,  \* detectPeaks: argument, frames of bin magnitudes
    sampleRate,   \* detectPeaks: argument
    threshold,    \* detectPeaks: argument
    maxPeaks,     \* detectPeaks: optional argument, Undefined when omitted
    allPeaks,     \* detectPeaks: the peak lists of the frames done so far
    peaksFrames,  \* trackPartials: argument, a sequence of frames
    tracks,       \* trackPartials: finalized tracks (the returned array)
    curTracks,    \* trackPartials: active tracks
    nextPeaks,    \* trackPartials: pool of unmatched peaks of the frame
    collection,   \* trackPartials: snapshot of curTracks iterated by the frame
    trackIdx,     \* trackPartials: index of the snapshot entry to process
    frameIdx,     \* trackPartials: index given to the per-frame callback
    hist,         \* history: the snapshot taken at the start of each frame
    synTracks,    \* synthesize: argument tracks
    frameLen,     \* synthesize: argument
    audioBuffer,  \* synthesize: the sample buffer
    sTrack,       \* synthesize: index of the track being rendered
    sPeak,        \* synthesize: index idxp of the peak callback to run
    sI,           \* synthesize: the sample index i of the track callback
    fcCurPeak,    \* findCandidateIndex: argument curPeak, a frequency
    fcNextPeaks,  \* findCandidateIndex: argument nextPeaks, frequencies
    fcResult      \* findCandidateIndex: the value returned

detectVars == <<spectrogram, sampleRate, threshold, maxPeaks, allPeaks>>

trackVars == <<peaksFrames, tracks, curTracks, nextPeaks, collection,
               trackIdx, frameIdx, hist>>

synthVars == <<synTracks, frameLen, audioBuffer, sTrack, sPeak, sI>>

findVars == <<fcCurPeak, fcNextPeaks, fcResult>>

vars == <<pc, detectVars, trackVars, synthVars, findVars>>

-----------------------------------------------------------------------------
(* Bounds of the model *)
MaxFrames == 4
MaxTotalPeaks == 4

(* Frequencies and amplitudes the input peaks are drawn from *)
Freqs == {100, 200, 400, 600}
Amps == {1}

matchingThreshold == 200

Null == -1
Undefined == -2

abs(x) == IF x < 0 THEN -x ELSE x

At(s, i) == s[i + 1]

Last(s) == s[Len(s)]

SeqToSet(s) == {s[i] : i \in DOMAIN s}

RECURSIVE SeqMax(_)
SeqMax(s) == IF Len(s) = 0 THEN 0
             ELSE LET r == SeqMax(Tail(s)) IN IF Head(s) > r THEN Head(s) ELSE r

-----------------------------------------------------------------------------
(* lodash helpers *)

\* _.sortedIndex(array, value): binary search for the lowest insertion index
RECURSIVE SortedIndexLoop(_, _, _, _)
SortedIndexLoop(array, value, low, high) ==
    IF low < high
    THEN LET mid == (low + high) \div 2 IN
         IF At(array, mid) < value
         THEN SortedIndexLoop(array, value, mid + 1, high)
         ELSE SortedIndexLoop(array, value, low, mid)
    ELSE low

sortedIndex(array, value) == SortedIndexLoop(array, value, 0, Len(array))

\* mutant of MinByLoop: the last element whose fn value is smallest wins
RECURSIVE MinByLoop_LastWins(_, _, _, _, _)
MinByLoop_LastWins(cands, dist, i, computed, result) ==
    IF i > Len(cands) THEN result
    ELSE IF computed = Null \/ dist[cands[i]] <= computed
         THEN MinByLoop_LastWins(cands, dist, i + 1, dist[cands[i]], cands[i])
         ELSE MinByLoop_LastWins(cands, dist, i + 1, computed, result)

\* _.min(candidates, fn): the first element whose fn value is strictly smallest
RECURSIVE MinByLoop(_, _, _, _, _)
MinByLoop(cands, dist, i, computed, result) ==
    IF i > Len(cands) THEN result
    ELSE IF computed = Null \/ dist[cands[i]] < computed
         THEN MinByLoop(cands, dist, i + 1, dist[cands[i]], cands[i])
         ELSE MinByLoop(cands, dist, i + 1, computed, result)

\* _.pull(array, value): removes every element identical to value
pull(array, value) == SelectSeq(array, LAMBDA x : x # value)

\* insertion of x into a key-sorted sequence after all keys <= key[x]
RECURSIVE InsertByKey(_, _, _)
InsertByKey(s, x, key) ==
    IF Len(s) = 0 THEN <<x>>
    ELSE IF key[Head(s)] <= key[x]
         THEN <<Head(s)>> \o InsertByKey(Tail(s), x, key)
         ELSE <<x>> \o s

RECURSIVE SortByLoop(_, _, _)
SortByLoop(s, acc, key) ==
    IF Len(s) = 0 THEN acc
    ELSE SortByLoop(Tail(s), InsertByKey(acc, Head(s), key), key)

\* _.sortBy(collection, iteratee): stable ascending sort; key maps each
\* element to the value of the iteratee
sortBy(s, key) == SortByLoop(s, <<>>, key)

\* _(x).pluck('freq').value()
pluckFreq(s) == [i \in 1..Len(s) |-> s[i].freq]

-----------------------------------------------------------------------------
(* detectPeaks *)

\* a frequency i * sampleRate / (bins*2), kept as an exact fraction, den > 0
Frac(n, d) == [num |-> n, den |-> d]

FracEq(a, b) == a.num * b.den = b.num * a.den

FracLess(a, b) == a.num * b.den < b.num * a.den

\* mutant of isPeak: a plateau counts as a peak
isPeak_NotStrict(prevMag, curMag, nextMag, thr) ==
    curMag >= prevMag /\ curMag > nextMag /\ curMag > thr

\* mutant of isPeak: a magnitude equal to the threshold counts as a peak
isPeak_AtThreshold(prevMag, curMag, nextMag, thr) ==
    curMag > prevMag /\ curMag > nextMag /\ curMag >= thr

\* the test for a peak at the current bin
isPeak(prevMag, curMag, nextMag, thr) ==
    curMag > prevMag /\ curMag > nextMag /\ curMag > thr

\* the scan of the bins 1 .. bins-2 with the rolling prevMag / curMag
RECURSIVE ScanBins(_, _, _, _, _, _, _)
ScanBins(frame, i, prevMag, curMag, binFactor, thr, framePeaks) ==
    IF i < Len(frame) - 1
    THEN LET nextMag == At(frame, i + 1) IN
         ScanBins(frame, i + 1, curMag, nextMag, binFactor, thr,
                  IF isPeak(prevMag, curMag, nextMag, thr)
                  THEN Append(framePeaks,
                              [freq |-> Frac(i * binFactor.num, binFactor.den),
                               amp |-> curMag])
                  ELSE framePeaks)
    ELSE framePeaks

\* the key _.sortBy(framePeaks, 'freq') orders by: within one frame all
\* frequencies have the denominator bins*2, so the numerators order them
freqKey(p) == p.freq.num

\* mutant of lastN: the first n elements are kept
lastN_First(array, n) ==
    SubSeq(array, 1, IF n < Len(array) THEN n ELSE Len(array))

\* _.last(array, n) for a number n: slice(array, max(0, length - n))
lastN(array, n) ==
    LET from == IF Len(array) - n > 0 THEN Len(array) - n ELSE 0
    IN SubSeq(array, from + 1, Len(array))

\* the body of the per-frame callback: the peak list pushed for the frame
FramePeaks(frame, sr, thr, mp) ==
    LET bins == Len(frame)
        prevMag == IF bins > 0 THEN At(frame, 0) ELSE Undefined
        curMag == IF bins > 1 THEN At(frame, 1) ELSE Undefined
        binFactor == Frac(sr, bins * 2)
        scanned == ScanBins(frame, 1, prevMag, curMag, binFactor, thr, <<>>)
        sorted == sortBy(scanned, [p \in SeqToSet(scanned) |-> freqKey(p)])
    IN IF mp # Undefined THEN lastN(sorted, mp) ELSE sorted

DetectFrame ==
    /\ pc = "detect"
    /\ Len(allPeaks) < Len(spectrogram)
    /\ allPeaks' = Append(allPeaks,
                          FramePeaks(spectrogram[Len(allPeaks) + 1],
                                     sampleRate, threshold, maxPeaks))
    /\ UNCHANGED <<pc, spectrogram, sampleRate, threshold, maxPeaks>>
    /\ UNCHANGED <<trackVars, synthVars, findVars>>

DetectReturn ==
    /\ pc = "detect"
    /\ Len(allPeaks) = Len(spectrogram)
    /\ pc' = "detected"
    /\ UNCHANGED <<detectVars, synthVars, findVars>>
    /\ UNCHANGED <<trackVars, synthVars, findVars>>

DetectIdle ==
    /\ spectrogram = <<>>
    /\ sampleRate = 0
    /\ threshold = 0
    /\ maxPeaks = Undefined
    /\ allPeaks = <<>>

-----------------------------------------------------------------------------
(* synthesize *)
(* A sample is the fraction num/den: den = 0 with num = 0 is NaN, den = 0  *)
(* with num # 0 an infinity. Accumulated samples are kept multiplied by    *)
(* frameLen, which makes the interpolated amplitude an integer. The sine   *)
(* is 0 at t = 0 and is otherwise known by its sign only.                  *)

Sample(x) == [num |-> x, den |-> 1]

IsNaN(x) == x.num = 0 /\ x.den = 0

IsZero(x) == x.num = 0 /\ x.den # 0

SinSigns == {-1, 0, 1}

\* mutant of numFrames: the birth of a track is not counted
numFrames_NoBirth(ts) == SeqMax([k \in 1..Len(ts) |-> Len(ts[k].peaks)])

\* numFrames: the maximum of birth + peaks.length over the tracks
numFrames(ts) == SeqMax([k \in 1..Len(ts) |-> ts[k].birth + Len(ts[k].peaks)])

\* instAmp at offset t of the segment from peak to next, times frameLen
instAmp(peak, next, t) == peak.amp * frameLen + t * (next.amp - peak.amp)

\* audioBuffer after the inner while loop of one segment starting at index i
segmentWrite(buf, i, peak, next, sgn) ==
    [k \in 1..Len(buf) |->
        IF i <= k - 1 /\ k - 1 < i + frameLen
        THEN LET t == k - 1 - i
                 sine == IF t = 0 THEN 0 ELSE sgn[t]
             IN Sample(buf[k].num + 2 * instAmp(peak, next, t) * sine)
        ELSE buf[k]]

\* x / maxAmp in floating point
fdiv(x, maxAmp) == [num |-> x.num, den |-> x.den * maxAmp]

\* _(audioBuffer).map(abs).max()
maxAbs(buf) == SeqMax([k \in 1..Len(buf) |-> abs(buf[k].num)])

SynthAllocFails ==
    /\ pc = "synthStart"
    /\ Len(synTracks) = 0
    /\ pc' = "synthError"
    /\ UNCHANGED synthVars
    /\ UNCHANGED <<detectVars, trackVars, findVars>>

SynthAlloc ==
    /\ pc = "synthStart"
    /\ Len(synTracks) > 0
    /\ audioBuffer' = [k \in 1..(numFrames(synTracks) * frameLen) |-> Sample(0)]
    /\ sTrack' = 0
    /\ sPeak' = 0
    /\ sI' = At(synTracks, 0).birth * frameLen
    /\ pc' = "synth"
    /\ UNCHANGED <<synTracks, frameLen>>
    /\ UNCHANGED <<detectVars, trackVars, findVars>>

\* the peak callback of a peak that is not the last of its track
SynthSegment ==
    /\ pc = "synth"
    /\ sTrack < Len(synTracks)
    /\ sPeak # Len(At(synTracks, sTrack).peaks) - 1
    /\ \E sgn \in [1..(frameLen - 1) -> SinSigns] :
          audioBuffer' = segmentWrite(audioBuffer, sI,
                                      At(At(synTracks, sTrack).peaks, sPeak),
                                      At(At(synTracks, sTrack).peaks, sPeak + 1),
                                      sgn)
    /\ sI' = sI + frameLen
    /\ sPeak' = sPeak + 1
    /\ UNCHANGED <<pc, synTracks, frameLen, sTrack>>
    /\ UNCHANGED <<detectVars, trackVars, findVars>>

\* the peak callback of the last peak returns at once; the next track starts
SynthLastPeak ==
    /\ pc = "synth"
    /\ sTrack < Len(synTracks)
    /\ sPeak = Len(At(synTracks, sTrack).peaks) - 1
    /\ sTrack' = sTrack + 1
    /\ sPeak' = 0
    /\ sI' = IF sTrack + 1 < Len(synTracks)
             THEN At(synTracks, sTrack + 1).birth * frameLen
             ELSE sI
    /\ UNCHANGED <<pc, synTracks, frameLen, audioBuffer>>
    /\ UNCHANGED <<detectVars, trackVars, findVars>>

\* the normalization loop and the return
SynthNormalize ==
    /\ pc = "synth"
    /\ sTrack = Len(synTracks)
    /\ audioBuffer' = [k \in 1..Len(audioBuffer) |->
                          fdiv(audioBuffer[k], maxAbs(audioBuffer))]
    /\ pc' = "synthDone"
    /\ UNCHANGED <<synTracks, frameLen, sTrack, sPeak, sI>>
    /\ UNCHANGED <<detectVars, trackVars, findVars>>

SynthIdle ==
    /\ synTracks = <<>>
    /\ frameLen = 1
    /\ audioBuffer = <<>>
    /\ sTrack = 0
    /\ sPeak = 0
    /\ sI = 0

-----------------------------------------------------------------------------
(* findCandidateIndex *)

\* mutant of findCandidateIndex: peaks within twice the matching radius are
\* candidates
findCandidateIndex_WideRadius(curPeak, peakFreqs) ==
    LET m == sortedIndex(peakFreqs, curPeak)
        c1 == IF m < Len(peakFreqs)
                 /\ abs(At(peakFreqs, m) - curPeak) <= 2 * matchingThreshold
              THEN <<m>> ELSE <<>>
        c2 == IF m > 0
                 /\ abs(At(peakFreqs, m - 1) - curPeak) <= 2 * matchingThreshold
              THEN <<m - 1>> ELSE <<>>
        c3 == IF m + 1 < Len(peakFreqs)
                 /\ abs(At(peakFreqs, m) - curPeak) <= 2 * matchingThreshold
              THEN <<m + 1>> ELSE <<>>
        candidates == c1 \o c2 \o c3
        dist == [v \in 0..(Len(peakFreqs) - 1) |-> abs(At(peakFreqs, v) - curPeak)]
    IN IF Len(candidates) = 0 THEN Null
       ELSE MinByLoop(candidates, dist, 1, Null, Null)

\* mutant of findCandidateIndex: the element below the insertion index is not
\* examined
findCandidateIndex_NoLower(curPeak, peakFreqs) ==
    LET m == sortedIndex(peakFreqs, curPeak)
        c1 == IF m < Len(peakFreqs)
                 /\ abs(At(peakFreqs, m) - curPeak) <= matchingThreshold
              THEN <<m>> ELSE <<>>
        c3 == IF m + 1 < Len(peakFreqs)
                 /\ abs(At(peakFreqs, m) - curPeak) <= matchingThreshold
              THEN <<m + 1>> ELSE <<>>
        candidates == c1 \o c3
        dist == [v \in 0..(Len(peakFreqs) - 1) |-> abs(At(peakFreqs, v) - curPeak)]
    IN IF Len(candidates) = 0 THEN Null
       ELSE MinByLoop(candidates, dist, 1, Null, Null)

findCandidateIndex(curPeak, peakFreqs) ==
    LET m == sortedIndex(peakFreqs, curPeak)
        c1 == IF m < Len(peakFreqs)
                 /\ abs(At(peakFreqs, m) - curPeak) <= matchingThreshold
              THEN <<m>> ELSE <<>>
        c2 == IF m > 0
                 /\ abs(At(peakFreqs, m - 1) - curPeak) <= matchingThreshold
              THEN <<m - 1>> ELSE <<>>
        c3 == IF m + 1 < Len(peakFreqs)
                 /\ abs(At(peakFreqs, m) - curPeak) <= matchingThreshold
              THEN <<m + 1>> ELSE <<>>
        candidates == c1 \o c2 \o c3
        dist == [v \in 0..(Len(peakFreqs) - 1) |-> abs(At(peakFreqs, v) - curPeak)]
    IN IF Len(candidates) = 0 THEN Null
       ELSE MinByLoop(candidates, dist, 1, Null, Null)

\* no call of findCandidateIndex on its own is in progress
FindIdle ==
    /\ fcCurPeak = 0
    /\ fcNextPeaks = <<>>
    /\ fcResult = Undefined

-----------------------------------------------------------------------------
(* trackPartials *)

trackComparison(t) == Last(t.peaks).freq

Zero(freq) == [freq |-> freq, amp |-> 0, ref |-> <<>>]

Track(id, birth, peaks) == [id |-> id, birth |-> birth, peaks |-> peaks]

\* the identity of the next track object created
NewId(n) == Len(tracks) + Len(curTracks) + n

\* track.peaks.push(peak) on the track object held in an array
Push(arr, t, peak) ==
    [i \in 1..Len(arr) |->
        IF arr[i].id = t.id
        THEN [arr[i] EXCEPT !.peaks = Append(@, peak)]
        ELSE arr[i]]

pullTrack(arr, t) == SelectSeq(arr, LAMBDA x : x.id # t.id)

\* the current track of the per-track callback and the values it computes
track == At(collection, trackIdx)
curFreq == Last(track.peaks).freq
nextFreqs == pluckFreq(nextPeaks)
candidateIdx == findCandidateIndex(curFreq, nextFreqs)
\* mutant of unmatchedTrackFreqs: the tracks after the current one only
unmatchedTrackFreqs_OthersOnly ==
    [i \in 1..(Len(collection) - trackIdx - 1) |->
        Last(collection[trackIdx + 1 + i].peaks).freq]

unmatchedTrackFreqs ==
    [i \in 1..(Len(collection) - trackIdx) |->
        Last(collection[trackIdx + i].peaks).freq]
\* mutant of possibleTrackIdx: the search is made for the track's own frequency
possibleTrackIdx_CurFreq ==
    findCandidateIndex(curFreq, unmatchedTrackFreqs)

possibleTrackIdx ==
    findCandidateIndex(At(nextFreqs, candidateIdx), unmatchedTrackFreqs)
possibleTrackFreq ==
    IF possibleTrackIdx = Null THEN Undefined
    ELSE At(unmatchedTrackFreqs, possibleTrackIdx)
\* mutant of lowerIndex: the fallback is the contested candidate itself
lowerIndex_Same == candidateIdx

lowerIndex == candidateIdx - 1

\* peaks of frame 0 are births
Bootstrap ==
    /\ pc = "boot"
    /\ curTracks' =
         IF Len(peaksFrames) = 0 THEN <<>>
         ELSE [i \in 1..Len(peaksFrames[1]) |->
                  Track(i, 0, <<peaksFrames[1][i]>>)]
    /\ pc' = "frame"
    /\ UNCHANGED <<peaksFrames, tracks, nextPeaks, collection, trackIdx,
                   frameIdx, hist>>
    /\ UNCHANGED <<detectVars, synthVars, findVars>>

\* start of the callback for frame frameIdx of _(peaksFrames).rest()
BeginFrame ==
    /\ pc = "frame"
    /\ frameIdx < Len(peaksFrames) - 1
    /\ nextPeaks' = peaksFrames[frameIdx + 2]
    /\ curTracks' = sortBy(curTracks,
                            [t \in SeqToSet(curTracks) |-> trackComparison(t)])
    /\ collection' = curTracks'
    /\ trackIdx' = 0
    /\ hist' = Append(hist, curTracks')
    /\ pc' = "track"
    /\ UNCHANGED <<peaksFrames, tracks, frameIdx>>
    /\ UNCHANGED <<detectVars, synthVars, findVars>>

\* mutant of Die: no zero-amplitude entry is appended
Die_NoEntry ==
    /\ tracks' = Append(tracks, track)
    /\ curTracks' = pullTrack(curTracks, track)
    /\ UNCHANGED nextPeaks

\* mutant of Die: the track is not removed from the active tracks
Die_KeepActive ==
    /\ tracks' = Append(tracks, [track EXCEPT !.peaks = Append(@, Zero(curFreq))])
    /\ curTracks' = Push(curTracks, track, Zero(curFreq))
    /\ UNCHANGED nextPeaks

\* death of the track: zero-amplitude entry, moved to tracks
Die ==
    /\ tracks' = Append(tracks, [track EXCEPT !.peaks = Append(@, Zero(curFreq))])
    /\ curTracks' = pullTrack(curTracks, track)
    /\ UNCHANGED nextPeaks

\* mutant of Take: the taken peak stays in the pool
Take_NoPull(k) ==
    /\ curTracks' = Push(curTracks, track, At(nextPeaks, k))
    /\ UNCHANGED nextPeaks
    /\ UNCHANGED tracks

\* the track takes the pool's peak at index k
Take(k) ==
    /\ curTracks' = Push(curTracks, track, At(nextPeaks, k))
    /\ nextPeaks' = pull(nextPeaks, At(nextPeaks, k))
    /\ UNCHANGED tracks

\* one invocation of the per-track callback
InTrack == pc = "track" /\ trackIdx < Len(collection)

EndTrack ==
    /\ trackIdx' = trackIdx + 1
    /\ UNCHANGED <<pc, peaksFrames, collection, frameIdx, hist>>
    /\ UNCHANGED <<detectVars, synthVars, findVars>>

\* mutant of lowerImpossible: the distance of the lower peak is not tested
lowerImpossible_NoRadius == lowerIndex < 0

lowerImpossible ==
    IF lowerIndex < 0 THEN TRUE
    ELSE abs(At(nextFreqs, lowerIndex) - curFreq) > matchingThreshold

TrackNoCandidate ==
    /\ InTrack
    /\ candidateIdx = Null
    /\ Die
    /\ EndTrack

TrackDefinitiveMatch ==
    /\ InTrack
    /\ candidateIdx # Null
    /\ possibleTrackFreq = curFreq
    /\ Take(candidateIdx)
    /\ EndTrack

TrackLowerDeath ==
    /\ InTrack
    /\ candidateIdx # Null
    /\ possibleTrackFreq # curFreq
    /\ lowerImpossible
    /\ Die
    /\ EndTrack

TrackLowerMatch ==
    /\ InTrack
    /\ candidateIdx # Null
    /\ possibleTrackFreq # curFreq
    /\ ~lowerImpossible
    /\ Take(lowerIndex)
    /\ EndTrack

\* mutant of Births: birth is the index of the frame in the whole list
Births_NextIndex ==
    /\ pc = "track"
    /\ trackIdx = Len(collection)
    /\ curTracks' = curTracks \o
         [i \in 1..Len(nextPeaks) |->
            Track(NewId(i), frameIdx + 1, <<Zero(nextPeaks[i].freq), nextPeaks[i]>>)]
    /\ frameIdx' = frameIdx + 1
    /\ pc' = "frame"
    /\ UNCHANGED <<peaksFrames, tracks, nextPeaks, collection, trackIdx, hist>>
    /\ UNCHANGED <<detectVars, synthVars, findVars>>

\* remaining peaks of the frame are births; end of the frame's callback
Births ==
    /\ pc = "track"
    /\ trackIdx = Len(collection)
    /\ curTracks' = curTracks \o
         [i \in 1..Len(nextPeaks) |->
            Track(NewId(i), frameIdx, <<Zero(nextPeaks[i].freq), nextPeaks[i]>>)]
    /\ frameIdx' = frameIdx + 1
    /\ pc' = "frame"
    /\ UNCHANGED <<peaksFrames, tracks, nextPeaks, collection, trackIdx, hist>>
    /\ UNCHANGED <<detectVars, synthVars, findVars>>

\* mutant of Finish: the active tracks are put in front of the dead ones
Finish_ActiveFirst ==
    /\ pc = "frame"
    /\ frameIdx >= Len(peaksFrames) - 1
    /\ tracks' = curTracks \o tracks
    /\ pc' = "done"
    /\ UNCHANGED <<peaksFrames, curTracks, nextPeaks, collection, trackIdx,
                   frameIdx, hist>>
    /\ UNCHANGED <<detectVars, synthVars, findVars>>

\* after the last frame the active tracks are appended to the result
Finish ==
    /\ pc = "frame"
    /\ frameIdx >= Len(peaksFrames) - 1
    /\ tracks' = tracks \o curTracks
    /\ pc' = "done"
    /\ UNCHANGED <<peaksFrames, curTracks, nextPeaks, collection, trackIdx,
                   frameIdx, hist>>
    /\ UNCHANGED <<detectVars, synthVars, findVars>>

-----------------------------------------------------------------------------
(* Arguments of trackPartials: frames ascending by freq, each peak an object *)
(* of its own; the caller builds the frame list before the call             *)

\* ascending sequences of n peaks with frequencies >= lo
RECURSIVE AscPeakSeqs(_, _)
AscPeakSeqs(n, lo) ==
    IF n = 0 THEN {<<>>}
    ELSE UNION {{<<[freq |-> f, amp |-> a]>> \o s : s \in AscPeakSeqs(n - 1, f)}
                : <<f, a>> \in {g \in Freqs : g >= lo} \X Amps}

RECURSIVE TotalLen(_)
TotalLen(ss) == IF Len(ss) = 0 THEN 0 ELSE Len(Head(ss)) + TotalLen(Tail(ss))

\* the peaks of frame f as distinct objects
MkFrame(fr, f) ==
    [i \in 1..Len(fr) |->
        [freq |-> fr[i].freq, amp |-> fr[i].amp, ref |-> <<f, i - 1>>]]

InitTrack ==
    /\ pc = "args"
    /\ peaksFrames = <<>>
    /\ tracks = <<>>
    /\ curTracks = <<>>
    /\ nextPeaks = <<>>
    /\ collection = <<>>
    /\ trackIdx = 0
    /\ frameIdx = 0
    /\ hist = <<>>
    /\ DetectIdle
    /\ SynthIdle
    /\ FindIdle

\* the caller adds a frame to the argument
TrackArgFrame ==
    /\ pc = "args"
    /\ Len(peaksFrames) < MaxFrames
    /\ \E k \in 0..(MaxTotalPeaks - TotalLen(peaksFrames)) :
          \E fr \in AscPeakSeqs(k, 0) :
             peaksFrames' = Append(peaksFrames, MkFrame(fr, Len(peaksFrames)))
    /\ UNCHANGED <<pc, tracks, curTracks, nextPeaks, collection, trackIdx,
                   frameIdx, hist>>
    /\ UNCHANGED <<detectVars, synthVars, findVars>>

\* trackPartials(peaksFrames) is called
TrackCall ==
    /\ pc = "args"
    /\ pc' = "boot"
    /\ UNCHANGED trackVars
    /\ UNCHANGED <<detectVars, synthVars, findVars>>

NextTrack ==
    \/ TrackArgFrame
    \/ TrackCall
    \/ Bootstrap
    \/ BeginFrame
    \/ TrackNoCandidate
    \/ TrackDefinitiveMatch
    \/ TrackLowerDeath
    \/ TrackLowerMatch
    \/ Births
    \/ Finish

SpecTrack == InitTrack /\ [][NextTrack]_vars

-----------------------------------------------------------------------------
(* Inputs of detectPeaks *)

MaxSpecFrames == 2
MaxTotalBins == 5
MaxCap == 2

Mags == {0, 1, 2}
Thresholds == {0, 1}
SampleRates == {-2, 2}

RECURSIVE MagSeqs(_)
MagSeqs(n) ==
    IF n = 0 THEN {<<>>}
    ELSE UNION {{<<m>> \o fr : fr \in MagSeqs(n - 1)} : m \in Mags}

TrackIdle ==
    /\ peaksFrames = <<>>
    /\ tracks = <<>>
    /\ curTracks = <<>>
    /\ nextPeaks = <<>>
    /\ collection = <<>>
    /\ trackIdx = 0
    /\ frameIdx = 0
    /\ hist = <<>>

InitDetect ==
    /\ pc = "detectArgs"
    /\ spectrogram = <<>>
    /\ sampleRate \in SampleRates
    /\ threshold \in Thresholds
    /\ maxPeaks \in {Undefined} \cup 0..MaxCap
    /\ allPeaks = <<>>
    /\ TrackIdle
    /\ SynthIdle
    /\ FindIdle

\* the caller adds a frame of magnitudes to the spectrogram
DetectArgFrame ==
    /\ pc = "detectArgs"
    /\ Len(spectrogram) < MaxSpecFrames
    /\ \E k \in 0..(MaxTotalBins - TotalLen(spectrogram)) :
          \E fr \in MagSeqs(k) : spectrogram' = Append(spectrogram, fr)
    /\ UNCHANGED <<pc, sampleRate, threshold, maxPeaks, allPeaks>>
    /\ UNCHANGED <<trackVars, synthVars, findVars>>

\* detectPeaks(spectrogram, sampleRate, threshold, maxPeaks) is called
DetectCall ==
    /\ pc = "detectArgs"
    /\ pc' = "detect"
    /\ UNCHANGED detectVars
    /\ UNCHANGED <<trackVars, synthVars, findVars>>

NextDetect ==
    \/ DetectArgFrame
    \/ DetectCall
    \/ DetectFrame
    \/ DetectReturn

SpecDetect == InitDetect /\ [][NextDetect]_vars

-----------------------------------------------------------------------------
(* Inputs of synthesize *)

MaxSynthTracks == 2
MaxSynthPeaks == 3
MaxBirth == 1
MaxFrameLen == 2

SynthFreqs == {440}
SynthAmps == {0, 1}

RECURSIVE SynthPeakSeqs(_)
SynthPeakSeqs(n) ==
    IF n = 0 THEN {<<>>}
    ELSE UNION {{<<[freq |-> f, amp |-> a, ref |-> <<>>]>> \o ps
                    : ps \in SynthPeakSeqs(n - 1)}
                : <<f, a>> \in SynthFreqs \X SynthAmps}

InitSynth ==
    /\ pc = "synthArgs"
    /\ synTracks = <<>>
    /\ frameLen \in 1..MaxFrameLen
    /\ audioBuffer = <<>>
    /\ sTrack = 0
    /\ sPeak = 0
    /\ sI = 0
    /\ DetectIdle
    /\ TrackIdle
    /\ FindIdle

\* the caller adds a track with at least one peak to the argument
SynthArgTrack ==
    /\ pc = "synthArgs"
    /\ Len(synTracks) < MaxSynthTracks
    /\ \E k \in 1..(MaxSynthPeaks
                      - TotalLen([j \in 1..Len(synTracks) |-> synTracks[j].peaks])) :
          \E b \in 0..MaxBirth, ps \in SynthPeakSeqs(k) :
             synTracks' = Append(synTracks, Track(Len(synTracks) + 1, b, ps))
    /\ UNCHANGED <<pc, frameLen, audioBuffer, sTrack, sPeak, sI>>
    /\ UNCHANGED <<detectVars, trackVars, findVars>>

\* synthesize(tracks, frameLen, samplingRate) is called
SynthCall ==
    /\ pc = "synthArgs"
    /\ pc' = "synthStart"
    /\ UNCHANGED synthVars
    /\ UNCHANGED <<detectVars, trackVars, findVars>>

NextSynth ==
    \/ SynthArgTrack
    \/ SynthCall
    \/ SynthAllocFails
    \/ SynthAlloc
    \/ SynthSegment
    \/ SynthLastPeak
    \/ SynthNormalize

SpecSynth == InitSynth /\ [][NextSynth]_vars

-----------------------------------------------------------------------------
(* Inputs of findCandidateIndex: a query frequency and an ascending list *)

MaxFindLen == 4

FindFreqs == {0, 100, 199, 200, 201, 300, 400, 401, 500, 700}

InitFind ==
    /\ pc = "findArgs"
    /\ fcCurPeak \in FindFreqs
    /\ fcNextPeaks = <<>>
    /\ fcResult = Undefined
    /\ DetectIdle
    /\ TrackIdle
    /\ SynthIdle

\* the caller adds a frequency, not below the last one, to the list
FindArgPeak ==
    /\ pc = "findArgs"
    /\ Len(fcNextPeaks) < MaxFindLen
    /\ \E f \in FindFreqs :
          /\ Len(fcNextPeaks) > 0 => Last(fcNextPeaks) <= f
          /\ fcNextPeaks' = Append(fcNextPeaks, f)
    /\ UNCHANGED <<pc, fcCurPeak, fcResult>>
    /\ UNCHANGED <<detectVars, trackVars, synthVars>>

\* findCandidateIndex(curPeak, nextPeaks) is called and returns
FindCall ==
    /\ pc = "findArgs"
    /\ fcResult' = findCandidateIndex(fcCurPeak, fcNextPeaks)
    /\ pc' = "found"
    /\ UNCHANGED <<fcCurPeak, fcNextPeaks>>
    /\ UNCHANGED <<detectVars, trackVars, synthVars>>

NextFind ==
    \/ FindArgPeak
    \/ FindCall

SpecFind == InitFind /\ [][NextFind]_vars

-----------------------------------------------------------------------------
(* Properties of trackPartials *)

Ids(arr) == {arr[i].id : i \in DOMAIN arr}

WithinRadius(a, b) == abs(a - b) <= matchingThreshold

Returned == pc = "done"

\* the peaks of the frame with original index f that no track active at the
\* start of that frame is within the matching radius of
Unreachable(f) ==
    {p \in SeqToSet(peaksFrames[f + 1]) :
        \A t \in SeqToSet(hist[f]) : ~WithinRadius(Last(t.peaks).freq, p.freq)}

BornAs(t, b, p) ==
    /\ t.birth = b
    /\ Len(t.peaks) >= 2
    /\ t.peaks[1] = Zero(p.freq)
    /\ t.peaks[2] = p

\* C1 as stated: a peak of frame f > 0 out of reach of every active track
\* starts a track with birth = f whose peaks begin [{freq, amp: 0}, p]
C1_BirthIsFrameIndex ==
    Returned =>
        \A f \in 1..(Len(peaksFrames) - 1) : \A p \in Unreachable(f) :
            \E t \in SeqToSet(tracks) : BornAs(t, f, p)

\* C1 amended: such a peak starts a track with birth = f - 1 (the index of the
\* frame in the list without frame 0) whose peaks begin [{freq, amp: 0}, p]
C1_BirthIsFrameIndexMinusOne ==
    Returned =>
        \A f \in 1..(Len(peaksFrames) - 1) : \A p \in Unreachable(f) :
            \E t \in SeqToSet(tracks) : BornAs(t, f - 1, p)

\* a peak of the last frame is born next to older tracks that are out of reach
C1_Witness ==
    /\ Returned
    /\ Len(peaksFrames) >= 3
    /\ LET f == Len(peaksFrames) - 1 IN
          /\ hist[f] # <<>>
          /\ Unreachable(f) # {}
          /\ \E p \in Unreachable(f) : \E t \in SeqToSet(tracks) : BornAs(t, f - 1, p)

-----------------------------------------------------------------------------
\* tracks that have died: everything in tracks before the final append
DeadTracks ==
    {t \in SeqToSet(tracks) : Returned => t.id \notin Ids(curTracks)}

SetMax(S) == CHOOSE x \in S : \A y \in S : y <= x

\* original index of the frame during which the dead track t was processed last
DeathFrame(t) == SetMax({d \in 1..Len(hist) : t.id \in Ids(hist[d])})

\* number of frames 0..f processed for the active track t at this point
FramesSeen(t) ==
    IF pc = "track" /\ \E i \in 1..trackIdx : collection[i].id = t.id
    THEN frameIdx + 1
    ELSE frameIdx

\* C2: peaks is never empty and holds one entry per frame from birth on:
\* an active track has f - birth + 1 entries once frames 0..f are processed,
\* a track that died in frame d has d - birth + 1, the last a zero-amplitude one
C2_OneEntryPerFrame ==
    /\ \A t \in SeqToSet(curTracks) \cup SeqToSet(tracks) :
          Len(t.peaks) >= 1 /\ t.birth >= 0
    /\ pc # "boot" =>
          \A t \in SeqToSet(curTracks) : Len(t.peaks) = FramesSeen(t) - t.birth + 1
    /\ \A t \in DeadTracks :
          /\ Len(t.peaks) = DeathFrame(t) - t.birth + 1
          /\ Last(t.peaks).amp = 0

\* a track born after frame 0 has died and another born after frame 0 is alive
C2_Witness ==
    /\ Returned
    /\ \E t \in DeadTracks : t.birth >= 1 /\ Len(t.peaks) = 3
    /\ \E t \in SeqToSet(curTracks) : t.birth >= 1 /\ Len(t.peaks) = 2

-----------------------------------------------------------------------------
\* every frame holds exactly one peak, all of the same frequency and amplitude
ConstantPeak ==
    /\ Len(peaksFrames) >= 1
    /\ \A f \in 1..Len(peaksFrames) :
          /\ Len(peaksFrames[f]) = 1
          /\ peaksFrames[f][1].freq = peaksFrames[1][1].freq
          /\ peaksFrames[f][1].amp = peaksFrames[1][1].amp

\* C3: N frames of one constant peak give exactly one track, birth 0, N peaks
\* (the input peaks), and no track ever dies
C3_ConstantPeakOneTrack ==
    ConstantPeak =>
        /\ ~Returned => tracks = <<>>
        /\ Returned =>
              /\ Len(tracks) = 1
              /\ tracks[1].birth = 0
              /\ Len(tracks[1].peaks) = Len(peaksFrames)
              /\ \A f \in 1..Len(peaksFrames) :
                    tracks[1].peaks[f] = peaksFrames[f][1]

C3_Witness ==
    /\ ConstantPeak
    /\ Returned
    /\ Len(peaksFrames) = MaxFrames
    /\ Len(tracks) = 1

-----------------------------------------------------------------------------
\* tracks of the snapshot of frame d that no peak of frame d is in reach of
Orphans(d) ==
    {t \in SeqToSet(hist[d]) :
        \A p \in SeqToSet(peaksFrames[d + 1]) :
            ~WithinRadius(Last(t.peaks).freq, p.freq)}

FramesDone == IF pc = "track" THEN Len(hist) - 1 ELSE Len(hist)

\* C4: a track whose current frequency c has no peak of the next frame within
\* the radius dies in that frame: {freq: c, amp: 0} is appended last, the
\* track is in the finalized list and no longer in the active set
C4_NoPeakInReachDies ==
    \A d \in 1..FramesDone : \A t \in Orphans(d) :
        /\ t.id \notin Ids(curTracks)
        /\ d < Len(hist) => t.id \notin Ids(hist[d + 1])
        /\ \E i \in 1..Len(tracks) :
              /\ tracks[i].id = t.id
              /\ tracks[i].peaks = Append(t.peaks, Zero(Last(t.peaks).freq))
              /\ Last(tracks[i].peaks).amp = 0
              /\ Last(tracks[i].peaks).freq =
                   tracks[i].peaks[Len(tracks[i].peaks) - 1].freq

\* a track with real peaks in two frames dies for lack of a peak in reach
\* although the frame holds a peak
C4_Witness ==
    /\ Returned
    /\ \E d \in 1..Len(hist) : \E t \in Orphans(d) :
          /\ Len(t.peaks) >= 2
          /\ peaksFrames[d + 1] # <<>>
          /\ \E u \in SeqToSet(tracks) : u.id = t.id /\ Last(u.peaks).amp = 0

-----------------------------------------------------------------------------
\* C5 as stated: the returned array is ordered by birth
C5_OrderedByBirth ==
    Returned =>
        \A i \in 1..Len(tracks) : \A j \in i..Len(tracks) :
            tracks[i].birth <= tracks[j].birth

-----------------------------------------------------------------------------
\* ids of all tracks created so far
Created == Ids(curTracks) \cup Ids(tracks) \cup UNION {Ids(hist[d]) : d \in 1..Len(hist)}

\* C6: a track is finalized exactly once, at its death or at the end of the
\* input; once in the finalized list it is never changed, never again in the
\* active set, and it is returned exactly once; tracks active after the last
\* frame are appended as they are
C6_StateInv ==
    /\ \A i, j \in 1..Len(tracks) : tracks[i].id = tracks[j].id => i = j
    /\ ~Returned => Ids(tracks) \cap Ids(curTracks) = {}
    /\ Returned => Ids(tracks) = Created

C6_Step ==
    /\ Len(tracks') >= Len(tracks)
    /\ \A i \in 1..Len(tracks) : tracks'[i] = tracks[i]
    /\ \A i \in (Len(tracks) + 1)..Len(tracks') :
          /\ tracks'[i].id \in Ids(curTracks)
          /\ pc' # "done" => tracks'[i].id \notin Ids(curTracks')
    /\ (pc' = "done" /\ pc # "done") =>
          /\ Len(tracks') = Len(tracks) + Len(curTracks)
          /\ \A t \in SeqToSet(curTracks) : t \in SeqToSet(tracks')

C6_FinalizedOnce == [][C6_Step]_vars /\ []C6_StateInv

\* at the return one track had died in an earlier frame and one was still active
C6_Witness ==
    /\ Returned
    /\ Len(hist) >= 3
    /\ \E t \in DeadTracks : DeathFrame(t) < Len(hist)
    /\ curTracks # <<>>

-----------------------------------------------------------------------------
(* Properties of detectPeaks *)

Detected == pc = "detected"

\* bin i (0-based) is a strict local maximum above the threshold
IsPeakBin(frame, i) ==
    /\ 0 < i
    /\ i < Len(frame) - 1
    /\ At(frame, i) > At(frame, i - 1)
    /\ At(frame, i) > At(frame, i + 1)
    /\ At(frame, i) > threshold

PeakBins(frame) == {i \in 0..(Len(frame) - 1) : IsPeakBin(frame, i)}

BinFreq(frame, i) == Frac(i * sampleRate, 2 * Len(frame))

\* the entry of the list is the peak of bin i
IsPeakOf(entry, frame, i) ==
    /\ FracEq(entry.freq, BinFreq(frame, i))
    /\ entry.amp = At(frame, i)

\* C7: without maxPeaks a peak is emitted for bin i iff i is an inner bin whose
\* magnitude exceeds both neighbours and the threshold; the peak is
\* {freq: i*sampleRate/(2*numBins), amp: frame[i]}; one list per frame, each
\* depending on its frame only; fewer than 3 bins give an empty list
C7_PeakIffLocalMax ==
    maxPeaks = Undefined =>
        /\ Detected => Len(allPeaks) = Len(spectrogram)
        /\ \A k \in 1..Len(allPeaks) :
              LET frame == spectrogram[k]
                  list == allPeaks[k]
              IN /\ \A i \in 0..(Len(frame) - 1) :
                       (\E j \in 1..Len(list) : IsPeakOf(list[j], frame, i))
                           <=> IsPeakBin(frame, i)
                 /\ \A j \in 1..Len(list) :
                       \E i \in PeakBins(frame) : IsPeakOf(list[j], frame, i)
                 /\ Len(list) = Cardinality(PeakBins(frame))
                 /\ Len(frame) < 3 => list = <<>>
                 /\ \A k2 \in 1..Len(allPeaks) :
                       spectrogram[k2] = frame => allPeaks[k2] = list

\* a frame with a peak is followed by a frame too short to hold any
C7_Witness ==
    /\ Detected
    /\ maxPeaks = Undefined
    /\ Len(spectrogram) = 2
    /\ Len(allPeaks[1]) = 1
    /\ Len(spectrogram[2]) = 2
    /\ allPeaks[2] = <<>>

\* C8: with sampleRate > 0 every returned frame is strictly ascending by freq
\* and every returned peak has amp > threshold
C8_AscendingAboveThreshold ==
    sampleRate > 0 =>
        \A k \in 1..Len(allPeaks) :
            /\ \A j \in 1..(Len(allPeaks[k]) - 1) :
                  FracLess(allPeaks[k][j].freq, allPeaks[k][j + 1].freq)
            /\ \A j \in 1..Len(allPeaks[k]) : allPeaks[k][j].amp > threshold

\* a returned frame holds two peaks, both above a positive threshold
C8_Witness ==
    /\ Detected
    /\ sampleRate > 0
    /\ threshold = 1
    /\ \E k \in 1..Len(allPeaks) : Len(allPeaks[k]) = 2

\* C9: with maxPeaks >= 0 given each returned frame holds exactly
\* min(maxPeaks, number of detected peaks) peaks, the detected peaks of
\* highest frequency; with maxPeaks omitted all detected peaks are returned
C9_CapKeepsHighestFreq ==
    \A k \in 1..Len(allPeaks) :
        LET frame == spectrogram[k]
            list == allPeaks[k]
            n == Cardinality(PeakBins(frame))
            kept == {i \in PeakBins(frame) :
                        \E j \in 1..Len(list) : IsPeakOf(list[j], frame, i)}
        IN /\ maxPeaks = Undefined => Len(list) = n
           /\ maxPeaks # Undefined =>
                 /\ Len(list) = IF maxPeaks < n THEN maxPeaks ELSE n
                 /\ Cardinality(kept) = Len(list)
                 /\ \A i \in kept : \A h \in PeakBins(frame) :
                       FracLess(BinFreq(frame, i), BinFreq(frame, h)) => h \in kept

\* a frame with two detected peaks is cut to the one of highest frequency
C9_Witness ==
    /\ Detected
    /\ maxPeaks = 1
    /\ \E k \in 1..Len(allPeaks) :
          /\ Cardinality(PeakBins(spectrogram[k])) = 2
          /\ Len(allPeaks[k]) = 1

-----------------------------------------------------------------------------
(* Properties of synthesize *)

Silent(buf) == \A k \in 1..Len(buf) : IsZero(buf[k])

\* C10 as stated: when every accumulated sample is zero the normalization
\* returns the all-zero buffer unchanged, with no NaN sample
C10_SilenceStaysSilent ==
    [][(pc = "synth" /\ pc' = "synthDone" /\ Silent(audioBuffer))
          => (Len(audioBuffer') = Len(audioBuffer) /\ Silent(audioBuffer'))]_vars

-----------------------------------------------------------------------------
(* Empty input *)

\* trackPartials on an empty frame list returns an empty track list
EmptyFramesEmptyTracks ==
    (Returned /\ peaksFrames = <<>>) => tracks = <<>>

\* synthesize was called on an empty track list and has left its first step
SynthCalledOnEmpty ==
    synTracks = <<>> /\ pc \notin {"synthArgs", "synthStart"}

\* C11 as stated: empty input is not an error: trackPartials([]) returns [],
\* and synthesize([]) returns a zero-length buffer without raising an error
C11_EmptyInputNoError ==
    /\ EmptyFramesEmptyTracks
    /\ SynthCalledOnEmpty => (pc = "synthDone" /\ audioBuffer = <<>>)

-----------------------------------------------------------------------------
(* Order of the returned list *)

\* position of the track with identity id in the array
Pos(arr, id) == CHOOSE i \in 1..Len(arr) : arr[i].id = id

\* the dead track a died before the dead track b: in an earlier frame, or in
\* the same frame with a ahead of b in that frame's sorted snapshot
DiedBefore(a, b) ==
    LET da == DeathFrame(a)
        db == DeathFrame(b)
    IN \/ da < db
       \/ /\ da = db
          /\ Pos(hist[da], a.id) < Pos(hist[da], b.id)
          /\ Last(At(hist[da], Pos(hist[da], a.id) - 1).peaks).freq
                <= Last(At(hist[da], Pos(hist[da], b.id) - 1).peaks).freq

-----------------------------------------------------------------------------
(* Disambiguation *)

\* current frequencies of the tracks after T in the frame's sorted snapshot
Others == {Last(collection[i].peaks).freq : i \in (trackIdx + 2)..Len(collection)}

candFreq == At(nextFreqs, candidateIdx)

\* the frequencies of Others nearest to the candidate, within the radius
NearestOthers ==
    {f \in Others :
        /\ WithinRadius(f, candFreq)
        /\ \A g \in Others : abs(g - candFreq) >= abs(f - candFreq)}

\* no track after T with another frequency is as near to the candidate as T
UniquelyNearest ==
    \A f \in Others : f = curFreq \/ abs(f - candFreq) > abs(curFreq - candFreq)

RemoveAt(s, k) == SubSeq(s, 1, k) \o SubSeq(s, k + 2, Len(s))

\* the step appends the pool's peak k to T and removes it from the pool
TakesPeak(k) ==
    /\ \E i \in 1..Len(curTracks') :
          /\ curTracks'[i].id = track.id
          /\ curTracks'[i].peaks = Append(track.peaks, At(nextPeaks, k))
    /\ nextPeaks' = RemoveAt(nextPeaks, k)
    /\ tracks' = tracks

\* the step finalizes T with a zero-amplitude entry at its frequency
Dies ==
    /\ track.id \notin Ids(curTracks')
    /\ tracks' = Append(tracks, [track EXCEPT
                                   !.peaks = Append(@, Zero(curFreq))])
    /\ nextPeaks' = nextPeaks

FallbackOrDeath ==
    IF candidateIdx - 1 >= 0
    THEN IF WithinRadius(At(nextFreqs, candidateIdx - 1), curFreq)
         THEN TakesPeak(candidateIdx - 1)
         ELSE Dies
    ELSE Dies

\* C13 as stated: T takes its candidate exactly when the nearest frequency of
\* the other unprocessed tracks does not equal c; otherwise the peak below if
\* it is within the radius of c, and death if not
C13_TakesUnlessOtherEqualsC ==
    [][(InTrack /\ candidateIdx # Null) =>
          IF \A f \in NearestOthers : f # curFreq
          THEN TakesPeak(candidateIdx)
          ELSE FallbackOrDeath]_vars

\* C13 amended: T takes its candidate exactly when no unprocessed track with
\* another current frequency is at least as near to the candidate as T (the
\* nearest frequency among T and the unprocessed tracks equals c); otherwise
\* the peak below if it is within the radius of c, and death if not
C13_TakesWhenNearest ==
    [][(InTrack /\ candidateIdx # Null) =>
          IF UniquelyNearest
          THEN TakesPeak(candidateIdx)
          ELSE FallbackOrDeath]_vars

\* a frame-0 track has taken the lower peak of frame 1 although the upper
\* one, taken by another track, was at least as near
C13_Witness ==
    /\ Returned
    /\ Len(peaksFrames) >= 2
    /\ Len(peaksFrames[2]) >= 2
    /\ \E t, u \in SeqToSet(tracks) :
          /\ t.birth = 0 /\ u.birth = 0 /\ t.id # u.id
          /\ Len(t.peaks) >= 2 /\ Len(u.peaks) >= 2
          /\ t.peaks[2] = peaksFrames[2][1]
          /\ u.peaks[2] = peaksFrames[2][2]
          /\ abs(u.peaks[2].freq - t.peaks[1].freq)
                <= abs(t.peaks[2].freq - t.peaks[1].freq)

-----------------------------------------------------------------------------
(* Ties of the nearest-peak search *)

\* the pool indices (0-based) i with peak i below c, peak i+1 above c, the two
\* adjacent, equally far from c and within the radius
TieIdx ==
    {i \in 0..(Len(nextFreqs) - 2) :
        /\ At(nextFreqs, i) < curFreq
        /\ curFreq < At(nextFreqs, i + 1)
        /\ curFreq - At(nextFreqs, i) = At(nextFreqs, i + 1) - curFreq
        /\ WithinRadius(At(nextFreqs, i), curFreq)}

\* C14 as stated: in a tie findCandidateIndex reports no candidate and the
\* track dies in that frame
C14_TieNoCandidate ==
    [][(InTrack /\ TieIdx # {}) => (candidateIdx = Null /\ Dies)]_vars

\* C14 amended: in a tie findCandidateIndex returns the index of the peak
\* above c, and the track does not die in that frame: it takes the peak above
\* as a definitive match or else the tied peak below
C14_TieUpperPeak ==
    [][(InTrack /\ TieIdx # {}) =>
          \A i \in TieIdx :
             /\ candidateIdx = i + 1
             /\ TakesPeak(i + 1) \/ TakesPeak(i)
             /\ ~Dies
             /\ track.id \in Ids(curTracks')]_vars

\* a frame-0 track midway between two peaks of frame 1 has taken the upper one
C14_Witness ==
    /\ Returned
    /\ Len(peaksFrames) >= 2
    /\ \E t \in SeqToSet(tracks) : \E i \in 1..(Len(peaksFrames[2]) - 1) :
          /\ t.birth = 0
          /\ Len(t.peaks) >= 2
          /\ peaksFrames[2][i].freq < t.peaks[1].freq
          /\ t.peaks[1].freq < peaksFrames[2][i + 1].freq
          /\ t.peaks[1].freq - peaksFrames[2][i].freq
                = peaksFrames[2][i + 1].freq - t.peaks[1].freq
          /\ t.peaks[2] = peaksFrames[2][i + 1]

-----------------------------------------------------------------------------
(* Properties of findCandidateIndex *)

Found == pc = "found"

\* indices (0-based) of the elements within the matching radius of the query
InRadius ==
    {i \in 0..(Len(fcNextPeaks) - 1) :
        abs(At(fcNextPeaks, i) - fcCurPeak) <= matchingThreshold}

\* C15: on an ascending list findCandidateIndex returns null iff no element is
\* within the radius of c; otherwise an index whose element is within the
\* radius and nearest to c among all elements; index m+1 is never returned
\* with an element outside the radius
C15_NearestWithinRadius ==
    Found =>
        /\ fcResult = Null <=> InRadius = {}
        /\ fcResult # Null =>
              /\ fcResult \in InRadius
              /\ \A j \in 0..(Len(fcNextPeaks) - 1) :
                    abs(At(fcNextPeaks, fcResult) - fcCurPeak)
                       <= abs(At(fcNextPeaks, j) - fcCurPeak)
              /\ fcResult = sortedIndex(fcNextPeaks, fcCurPeak) + 1
                    => fcResult \in InRadius

\* index m+1 was admitted as a candidate on the test of element m although
\* its own element is outside the radius, and an index was returned
C15_Witness ==
    /\ Found
    /\ fcResult # Null
    /\ LET m == sortedIndex(fcNextPeaks, fcCurPeak) IN
          /\ m + 1 < Len(fcNextPeaks)
          /\ m > 0
          /\ m \in InRadius
          /\ m - 1 \in InRadius
          /\ m + 1 \notin InRadius

-----------------------------------------------------------------------------
(* Buffer length and write ranges of synthesize *)

\* the frame extents birth + len(peaks) of the argument tracks
Extents == {synTracks[k].birth + Len(synTracks[k].peaks) : k \in 1..Len(synTracks)}

\* the buffer differs from the one before the step at (0-based) index k
Written(k) == audioBuffer'[k + 1] # audioBuffer[k + 1]

\* C16: the buffer has length frameLen * max(birth + len(peaks)); segment i of
\* a track covers the frameLen samples from birth*frameLen + i*frameLen, all
\* inside the buffer and below (birth + len(peaks) - 1)*frameLen; the last
\* peak of a track starts no segment and a single-peak track writes nothing
C16_Step ==
    /\ (pc = "synthStart" /\ pc' = "synth") =>
          /\ Len(audioBuffer') = frameLen * SetMax(Extents)
          /\ \A k \in 1..Len(audioBuffer') : IsZero(audioBuffer'[k])
    /\ (pc = "synth" /\ pc' = "synth") =>
          LET t == At(synTracks, sTrack)
              first == t.birth * frameLen
              limit == (t.birth + Len(t.peaks) - 1) * frameLen
          IN /\ Len(audioBuffer') = Len(audioBuffer)
             /\ IF sPeak < Len(t.peaks) - 1
                THEN /\ sI = first + sPeak * frameLen
                     /\ sI' = sI + frameLen
                     /\ first <= sI /\ sI' <= limit
                     /\ 0 <= sI /\ sI' <= Len(audioBuffer)
                     /\ \A k \in 0..(Len(audioBuffer) - 1) :
                           Written(k) => (sI <= k /\ k < sI')
                ELSE audioBuffer' = audioBuffer
             /\ Len(t.peaks) = 1 => audioBuffer' = audioBuffer

\* C16: every step of synthesize allocates and writes as C16_Step states: the
\* buffer has length frameLen * max(birth + len(peaks)) and every segment is
\* written inside the buffer, within the frames of its track
C16_WritesInsideBuffer == [][C16_Step]_vars

\* the second track, born in frame 1 after a single-peak track, has rendered
\* its first segment into samples 2..3 of a buffer of 6
C16_Witness ==
    /\ pc = "synth"
    /\ frameLen = 2
    /\ Len(synTracks) = 2
    /\ Len(synTracks[1].peaks) = 1
    /\ synTracks[2].birth = 1
    /\ Len(synTracks[2].peaks) = 2
    /\ sTrack = 1
    /\ sPeak = 1
    /\ sI = 4
    /\ Len(audioBuffer) = 6
    /\ ~IsZero(audioBuffer[4])

-----------------------------------------------------------------------------
(* Peak conservation *)

\* all tracks created so far, each once
AllTracks == IF Returned THEN tracks ELSE tracks \o curTracks

\* the places <<track index, entry index>> of AllTracks that hold the object p
Occ(p) ==
    {<<a, b>> \in (1..Len(AllTracks)) \X (1..(Len(peaksFrames) + 1)) :
        b <= Len(AllTracks[a].peaks) /\ AllTracks[a].peaks[b] = p}

InputPeaks == UNION {SeqToSet(peaksFrames[f]) : f \in 1..Len(peaksFrames)}

\* the track at index a of AllTracks was active at the start of the frame with
\* original index f and had n entries then
ActiveWith(a, f, n) ==
    \E t \in SeqToSet(hist[f]) : t.id = AllTracks[a].id /\ Len(t.peaks) = n

\* C17: every input peak object is in exactly one returned track, exactly
\* once: a frame-0 peak first in a birth-0 track, a later peak appended to a
\* track active in its frame or second in a track born in its frame; every
\* other entry is a synthetic zero-amplitude one
C17_PeakConservation ==
    /\ \A a \in 1..Len(AllTracks) : \A b \in 1..Len(AllTracks[a].peaks) :
          LET e == AllTracks[a].peaks[b] IN
          IF e.ref = <<>> THEN e.amp = 0
          ELSE e = peaksFrames[e.ref[1] + 1][e.ref[2] + 1]
    /\ Returned =>
          \A f \in 1..Len(peaksFrames) : \A i \in 1..Len(peaksFrames[f]) :
             LET p == peaksFrames[f][i] IN
             /\ Cardinality(Occ(p)) = 1
             /\ \A o \in Occ(p) :
                   IF f = 1
                   THEN o[2] = 1 /\ AllTracks[o[1]].birth = 0
                   ELSE \/ /\ o[2] = 2
                           /\ AllTracks[o[1]].birth = f - 2
                           /\ AllTracks[o[1]].peaks[1] = Zero(p.freq)
                           /\ ~ActiveWith(o[1], f - 1, 1)
                        \/ ActiveWith(o[1], f - 1, o[2] - 1)

\* the returned tracks hold a peak matched in a later frame, a peak born in a
\* later frame and a death entry
C17_Witness ==
    /\ Returned
    /\ TotalLen(peaksFrames) = MaxTotalPeaks
    /\ \E t \in SeqToSet(tracks) :
          t.birth = 0 /\ Len(t.peaks) >= 2 /\ t.peaks[2] \in InputPeaks
    /\ \E t \in SeqToSet(tracks) :
          t.birth >= 1 /\ t.peaks[1].ref = <<>> /\ t.peaks[2] \in InputPeaks
    /\ \E t \in SeqToSet(tracks) : Last(t.peaks).ref = <<>>

-----------------------------------------------------------------------------
(* Frequency continuity of a track *)

\* C18: two consecutive entries of a track differ in frequency by at most
\* the matching radius; a synthetic birth entry repeats the frequency of the
\* entry after it and a synthetic death entry that of the entry before it
C18_ConsecutiveWithinRadius ==
    \A t \in SeqToSet(tracks) \cup SeqToSet(curTracks) :
        \A b \in 1..(Len(t.peaks) - 1) :
            /\ WithinRadius(t.peaks[b].freq, t.peaks[b + 1].freq)
            /\ t.peaks[b].ref = <<>> => t.peaks[b].freq = t.peaks[b + 1].freq
            /\ t.peaks[b + 1].ref = <<>> => t.peaks[b + 1].freq = t.peaks[b].freq

\* a returned frame-0 track took the lower peak of frame 1, exactly the
\* matching radius below it, while another track took the upper one, and
\* died afterwards
C18_Witness ==
    /\ Returned
    /\ Len(peaksFrames) >= 3
    /\ Len(peaksFrames[2]) = 2
    /\ \E t, u \in SeqToSet(tracks) :
          /\ t.birth = 0 /\ u.birth = 0 /\ t.id # u.id
          /\ Len(t.peaks) >= 3 /\ Len(u.peaks) >= 2
          /\ t.peaks[2] = peaksFrames[2][1]
          /\ u.peaks[2] = peaksFrames[2][2]
          /\ t.peaks[1].freq - t.peaks[2].freq = matchingThreshold
          /\ Last(t.peaks).ref = <<>>

-----------------------------------------------------------------------------
(* Priority of the unprocessed tracks *)

\* the peaks the step removes from the pool
TakenPeaks == SeqToSet(nextPeaks) \ SeqToSet(nextPeaks')

\* C19: when a track T takes a peak p (definitive match or lower fallback), no
\* track still unprocessed in the frame has a current frequency strictly
\* closer to p.freq than T's current frequency
C19_Step ==
    InTrack =>
        \A p \in TakenPeaks :
            /\ \E i \in 1..Len(curTracks') :
                  /\ curTracks'[i].id = track.id
                  /\ curTracks'[i].peaks = Append(track.peaks, p)
            /\ \A f \in Others : abs(f - p.freq) >= abs(curFreq - p.freq)

\* C19: in every step in which a track takes a peak, no unprocessed track of
\* the frame is strictly closer to that peak
C19_NoCloserUnprocessedTrack == [][C19_Step]_vars

\* the first track of the frame has just taken a peak that the next,
\* unprocessed track is within the matching radius of, but not closer to
C19_Witness ==
    /\ pc = "track"
    /\ trackIdx = 1
    /\ Len(collection) >= 2
    /\ \E t \in SeqToSet(curTracks) :
          /\ t.id = collection[1].id
          /\ Len(t.peaks) = Len(collection[1].peaks) + 1
          /\ Last(t.peaks) \in SeqToSet(peaksFrames[frameIdx + 2])
          /\ WithinRadius(Last(collection[2].peaks).freq, Last(t.peaks).freq)
          /\ Last(collection[2].peaks).freq # Last(collection[1].peaks).freq

====
